---- MODULE Spec2Model ----
(***************************************************************************)
(* Model of dlt/destinations/dataset.py: the lazy resolution of schema and *)
(* sql client of a ReadableDBAPIDataset, and the ReadableDBAPIRelation     *)
(* built on it (refinement by copy, column schema, cursor scopes, lazy      *)
(* sequences), and the module's functions dataset() and                    *)
(* get_destination_clients().                                              *)
(*                                                                         *)
(* Python values: an optional value is <<>> (None) or <<v>>.  Objects that *)
(* have identity (Schema, client, Relation) carry an object id.            *)
(***************************************************************************)
EXTENDS Integers, Sequences, FiniteSets, TLC

\* ------------------------------------------------------------------ bounds
\* destination clients one Dataset may construct (caps retries after a failure)
MaxClients == 3
\* Relation objects the calling program keeps: in the runs that vary the
\* destination and the schema hint, and in the runs that vary the refinements
DatasetRels == 1
MaxRels == 2
\* lazy sequences (generator objects) the calling program holds at a time
MaxGens == 2

None == <<>>
Some(x) == <<x>>

\* ------------------------------------------------- the world outside the module
\* the dataset_name the Dataset is constructed with; the schema names in use are
\* "s1" (the one a caller may pass) and "s2"
DatasetName == "d"
\* the destination_type of the Dataset's destination, and the message of the
\* error of lines 303-306
DestinationType == "postgres"
NoSqlClient(destination_type) == <<"Destination", destination_type, "does not support SqlClient.">>

\* the columns a stored (or explicit) schema `ver` holds for its table "t",
\* in storage order; descriptors differ per schema
ColumnsOf(ver) ==
    << [name |-> "a", desc |-> <<ver, "a">>], [name |-> "b", desc |-> <<ver, "b">>] >>

\* schema.tables of a schema with content: one table, keyed by its normalized name
TablesOf(ver) == [t \in {"t"} |-> ColumnsOf(ver)]

\* schema.tables of Schema(name): no user tables
NoTables == [t \in {} |-> <<>>]

\* Schema(name): a new empty schema object
Schema(name, oid) == [oid |-> oid, name |-> name, tables |-> NoTables]

\* the Schema object a caller passes to dataset(..., schema=Schema)
ExplicitSchema == [oid |-> 0, name |-> "x", tables |-> TablesOf("x")]

\* StorageSchemaInfo rows as the destination holds them: schema_name and the
\* serialized schema
StoredInfo(name) == [schema_name |-> name, schema |-> <<"json", name>>]

\* json.loads(stored_schema.schema)
JsonLoads(s) == [name |-> s[2], tables |-> TablesOf(s[2])]

\* Schema.from_stored_schema(dict)
FromStoredSchema(dict, oid) == [oid |-> oid, name |-> dict.name, tables |-> dict.tables]

\* what the destination may hold, oldest first
StoredStates == { <<>>, <<StoredInfo("s2")>>, <<StoredInfo("s1"), StoredInfo("s2")>> }

\* ------------------------------------------------------- inputs of the calls
\* table names a caller asks for: "t" is a table of the stored schemas, "T" is the
\* same table spelled so that the naming convention has to normalize it, "" is
\* the empty name
TableNames == {"t", "T", ""}
\* raw queries a caller passes to Dataset.__call__: a text, and the empty text
Queries == {"SELECT 1", ""}
\* arguments of limit()
LimitArgs == {0, 2}
\* arguments of select(*columns): "B" normalizes to "b", "z" is in no schema
ColumnArgs == { <<>>, <<"B", "a", "B">>, <<"a", "z">> }
\* arguments of Relation.__getitem__: a str, a Sequence of str, anything else
GetItemArgs == { <<"str", "z">>, <<"seq", <<"a">>>>, <<"other", 7>> }
\* arguments of head(): none (the default applies) or a number
HeadArgs == {None} \cup { Some(n) : n \in {2} }
\* the wrapped cursor functions of _wrap_func
FetchFuncs == {"df", "arrow", "fetchall", "fetchmany", "fetchone"}
\* the wrapped cursor iterators of _wrap_iter
IterFuncs == {"iter_df", "iter_arrow", "iter_fetch"}
\* what the iterator of the cursor does when it is asked for its next item: gives
\* one, ends, or raises
PullOutcomes == {"item", "end", "error"}

\* schema.naming.normalize_path / normalize_tables_path: snake case
NormalizePath(c) == IF c = "B" THEN "b" ELSE IF c = "A" THEN "a" ELSE c
NormalizeTablesPath(t) == IF t = "T" THEN "t" ELSE t
\* sql_client.make_qualified_table_name, escape_column_name, _limit_clause_sql
MakeQualifiedTableName(t) == <<"qualified", DatasetName, t>>
EscapeColumnName(c) == <<"escaped", c>>
LimitClauseSql(n) == << "", <<"LIMIT", n>> >>

\* Python truthiness of optional str, int and tuple values
TruthyStr(o) == o /= None /\ o[1] /= ""
TruthyInt(o) == o /= None /\ o[1] /= 0
TruthySeq(o) == o /= None /\ o[1] /= <<>>

\* an insertion-ordered dict as a sequence of [name, desc] items
DictHas(m, k) == \E i \in 1..Len(m) : m[i].name = k
DictGet(m, k) == m[CHOOSE i \in 1..Len(m) : m[i].name = k].desc
DictSet(m, k, v) ==
    IF DictHas(m, k)
    THEN [i \in 1..Len(m) |-> IF m[i].name = k THEN [name |-> k, desc |-> v] ELSE m[i]]
    ELSE Append(m, [name |-> k, desc |-> v])
DictKeys(m) == [i \in 1..Len(m) |-> m[i].name]

VARIABLES
    _provided_schema,  \* <<>> | <<"schema", Schema>> | <<"str", name>>
    stored,            \* destination: the stored schema rows, oldest first
    caps,              \* destination client class: [state_sync, sql_client]
    _schema,           \* <<>> | <<Schema>>
    _sql_client,       \* <<>> | <<handle>>
    clients,           \* every destination client constructed, in order
    lookups,           \* every get_stored_schema call, in order
    next_oid,          \* next Schema object id
    rels,              \* the Relation objects the caller keeps, by object id
    slots,             \* how many Relation objects the caller keeps
    keep,              \* which it lets go of when it has no room: "first" keeps
                       \* the ones it has, "latest" lets go of the oldest
    ctx,               \* the cursor() scope the caller is inside of: <<>> | <<scope>>
    gens,              \* the generator objects of _wrap_iter the caller holds
    session,           \* whether the session of the Dataset's sql client is open
    last               \* the call that has just ended and what it returned or raised;
                       \* NoCall once the caller has taken the result

vars == << _provided_schema, stored, caps, _schema, _sql_client, clients, lookups,
           next_oid, rels, slots, keep, ctx, gens, session, last >>

\* the Dataset's mutable state and the trace of its calls, as one value;
\* ensures counts the _ensure_client_and_schema calls of the running operation,
\* msg is the message of the error it raised
DS == [schema |-> _schema, sql_client |-> _sql_client, clients |-> clients,
       lookups |-> lookups, next_oid |-> next_oid, ensures |-> 0, msg |-> None]

\* --------------------------------------------------------------- the Dataset
\* client.get_stored_schema(name) / client.get_stored_schema(): the newest row of
\* that name, or the newest row
RECURSIVE NewestStored(_, _)
NewestStored(rows, name) ==
    IF rows = <<>> THEN None
    ELSE LET r == rows[Len(rows)] IN
         IF name = None \/ name = Some(r.schema_name) THEN Some(r)
         ELSE NewestStored(SubSeq(rows, 1, Len(rows) - 1), name)

GetStoredSchema(name) == NewestStored(stored, name)

\* self._destination_client(schema): a new client bound to `schema`
DestinationClient(d, schema, line) ==
    [id |-> Len(d.clients) + 1, schema |-> schema, line |-> line,
     destination_type |-> DestinationType,
     state_sync |-> caps.state_sync, with_sql |-> caps.sql_client]

\* the schema a lookup that found nothing leaves: Schema(name) after the named
\* lookup (line 283), nothing after the unnamed one
NothingStored(d, placeholder_name, named) ==
    IF named
    THEN [d EXCEPT !.schema = Some(Schema(placeholder_name, d.next_oid)), !.next_oid = @ + 1]
    ELSE d

\* the stored schema a lookup found, deserialized (lines 281 and 291)
LoadStored(d, found) ==
    [d EXCEPT !.schema = Some(FromStoredSchema(JsonLoads(found.schema), d.next_oid)),
              !.next_oid = @ + 1]

\* (mutation of LookupName: the named lookup asks for the newest schema)
LookupNameNewest(placeholder_name, named) == None

\* the argument of get_stored_schema: the given name (line 279) or none (line 289)
LookupName(placeholder_name, named) == IF named THEN Some(placeholder_name) ELSE None

\* lines 277-283 and 287-291: the placeholder client and the lookup on it
LookupStored(d, placeholder_name, named) ==
    LET placeholder == Schema(placeholder_name, d.next_oid)
        client == DestinationClient(d, placeholder, IF named THEN 277 ELSE 287)
        d1 == [d EXCEPT !.clients = Append(@, client), !.next_oid = @ + 1]
    IN  IF ~client.state_sync THEN d1
        ELSE LET name == LookupName(placeholder_name, named)
                 found == GetStoredSchema(name)
                 d2 == [d1 EXCEPT !.lookups = Append(@, [client |-> client.id, name |-> name])]
             IN  IF found /= None THEN LoadStored(d2, found[1])
                 ELSE NothingStored(d2, placeholder_name, named)

\* (mutation of ResolveSchema: an explicit Schema is treated like no hint)
ResolveSchemaLooksUp(d) ==
    IF d.schema = None THEN LookupStored(d, DatasetName, FALSE) ELSE d

\* lines 271-291: the schema branches
ResolveSchema(d) ==
    IF d.schema = None /\ _provided_schema /= None /\ _provided_schema[1] = "schema"
    THEN [d EXCEPT !.schema = Some(_provided_schema[2])]
    ELSE IF d.schema = None /\ _provided_schema /= None /\ _provided_schema[1] = "str"
    THEN LookupStored(d, _provided_schema[2], TRUE)
    ELSE IF d.schema = None
    THEN LookupStored(d, DatasetName, FALSE)
    ELSE d

\* lines 293-295
DefaultSchema(d) ==
    IF d.schema = None
    THEN [d EXCEPT !.schema = Some(Schema(DatasetName, d.next_oid)), !.next_oid = @ + 1]
    ELSE d

\* (mutation of BindSqlClient: no guard on self._sql_client)
BindSqlClientAlways(d) ==
    LET client == DestinationClient(d, d.schema[1], 299)
        d1 == [d EXCEPT !.clients = Append(@, client)]
    IN  IF client.with_sql
        THEN [d |-> [d1 EXCEPT !.sql_client = Some([client |-> client.id])], exc |-> None]
        ELSE [d |-> [d1 EXCEPT !.msg = Some(NoSqlClient(client.destination_type))],
                  exc |-> Some("Exception")]

\* (mutation of BindSqlClient: the client of the lookup is kept as the sql client)
BindSqlClientReuse(d) ==
    IF d.sql_client = None
    THEN LET fresh == DestinationClient(d, d.schema[1], 299)
             reuse == d.clients /= <<>>
             client == IF reuse THEN d.clients[Len(d.clients)] ELSE fresh
             d1 == IF reuse THEN d ELSE [d EXCEPT !.clients = Append(@, client)]
         IN  IF client.with_sql
             THEN [d |-> [d1 EXCEPT !.sql_client = Some([client |-> client.id])], exc |-> None]
             ELSE [d |-> [d1 EXCEPT !.msg = Some(NoSqlClient(client.destination_type))],
                  exc |-> Some("Exception")]
    ELSE [d |-> d, exc |-> None]

\* (mutation of BindSqlClient: a client without sql client is let through)
BindSqlClientLenient(d) ==
    IF d.sql_client = None
    THEN LET client == DestinationClient(d, d.schema[1], 299)
             d1 == [d EXCEPT !.clients = Append(@, client)]
         IN  IF client.with_sql
             THEN [d |-> [d1 EXCEPT !.sql_client = Some([client |-> client.id])], exc |-> None]
             ELSE [d |-> d1, exc |-> None]
    ELSE [d |-> d, exc |-> None]

\* lines 297-306
BindSqlClient(d) ==
    IF d.sql_client = None
    THEN LET client == DestinationClient(d, d.schema[1], 299)
             d1 == [d EXCEPT !.clients = Append(@, client)]
         IN  IF client.with_sql
             THEN [d |-> [d1 EXCEPT !.sql_client = Some([client |-> client.id])], exc |-> None]
             ELSE [d |-> [d1 EXCEPT !.msg = Some(NoSqlClient(client.destination_type))],
                  exc |-> Some("Exception")]
    ELSE [d |-> d, exc |-> None]

\* _ensure_client_and_schema
EnsureClientAndSchema(d) ==
    BindSqlClient(DefaultSchema(ResolveSchema([d EXCEPT !.ensures = @ + 1])))

\* what a property returns once _ensure_client_and_schema has ended as e: the
\* field, unless it raised
Returning(e, field) ==
    [d |-> e.d, exc |-> e.exc, ret |-> IF e.exc = None THEN e.d[field] ELSE None]

\* Dataset.schema
SchemaProperty(d) == Returning(EnsureClientAndSchema(d), "schema")

\* Dataset.sql_client
SqlClientProperty(d) == Returning(EnsureClientAndSchema(d), "sql_client")

\* n reads in a row of Relation.schema / Relation.sql_client (lines 93-99), up to
\* the first that raises; ReadsAfter: the n reads that follow one that ended as e
RECURSIVE Reads(_, _)
ReadsAfter(e, n) == IF e.exc /= None THEN e ELSE Reads(e.d, n)

Reads(d, n) ==
    IF n = 0 THEN [d |-> d, exc |-> None]
    ELSE ReadsAfter(EnsureClientAndSchema(d), n - 1)

\* -------------------------------------------------------------- the Relation
HasQuery == "ReadableRelationHasQueryException"
UnknownColumn == "ReadableRelationUnknownColumnException"

\* the mutated constructor: a parameter counts as given unless it is None
RelationInitNotNone(provided_query, table_name, limit, selected_columns) ==
    IF (table_name /= None) = (provided_query /= None)
    THEN [exc |-> Some("AssertionError"), obj |-> None]
    ELSE [exc |-> None,
          obj |-> Some([_provided_query |-> provided_query, _table_name |-> table_name,
                        _limit |-> limit, _selected_columns |-> selected_columns])]

\* ReadableDBAPIRelation.__init__: the assertion and the fields
RelationInit(provided_query, table_name, limit, selected_columns) ==
    IF TruthyStr(table_name) = TruthyStr(provided_query)
    THEN [exc |-> Some("AssertionError"), obj |-> None]
    ELSE [exc |-> None,
          obj |-> Some([_provided_query |-> provided_query, _table_name |-> table_name,
                        _limit |-> limit, _selected_columns |-> selected_columns])]

\* __copy__
Copy(r) == RelationInit(r._provided_query, r._table_name, r._limit, r._selected_columns)

\* the loop of compute_columns_schema (lines 149-156) from the k-th selected column on
RECURSIVE FilterColumns(_, _, _, _, _)
\* one round of the loop: a is the read of self.schema (line 151), sc the
\* normalized name
FilterColumn(a, sc, cols, k, columns_schema, filtered) ==
    IF a.exc /= None THEN [d |-> a.d, exc |-> a.exc, ret |-> None]
    ELSE IF ~DictHas(columns_schema, sc)
    THEN [d |-> a.d, exc |-> Some(UnknownColumn), ret |-> None]
    ELSE FilterColumns(a.d, cols, k + 1, columns_schema,
                       DictSet(filtered, sc, DictGet(columns_schema, sc)))

FilterColumns(d, cols, k, columns_schema, filtered) ==
    IF k > Len(cols) THEN [d |-> d, exc |-> None, ret |-> Some(filtered)]
    ELSE FilterColumn(SchemaProperty(d), NormalizePath(cols[k]), cols, k,
                      columns_schema, filtered)

\* self.schema.tables.get(self._table_name, {}).get("columns", {})
TableColumns(schema, table_name) ==
    IF table_name /= None /\ table_name[1] \in DOMAIN schema.tables
    THEN schema.tables[table_name[1]]
    ELSE <<>>

\* (mutation of ComputeColumnsSchema: the selected columns come back in the order
\* the table schema stores them)
StorageOrdered(f, columns_schema) ==
    IF f.exc /= None THEN f
    ELSE [f EXCEPT !.ret = Some(SelectSeq(columns_schema, LAMBDA c : DictHas(f.ret[1], c.name)))]

ColumnsSchemaStorageOrder(a, r) ==
    IF a.exc /= None THEN [d |-> a.d, exc |-> a.exc, ret |-> None]
    ELSE LET columns_schema == TableColumns(a.d.schema[1], r._table_name)
         IN  IF columns_schema = <<>> THEN [d |-> a.d, exc |-> None, ret |-> None]
             ELSE IF ~TruthySeq(r._selected_columns)
             THEN [d |-> a.d, exc |-> None, ret |-> Some(columns_schema)]
             ELSE StorageOrdered(
                      FilterColumns(a.d, r._selected_columns[1], 1, columns_schema, <<>>),
                      columns_schema)

ComputeColumnsSchemaStorageOrder(d, r) == ColumnsSchemaStorageOrder(Reads(d, 2), r)

\* compute_columns_schema once self.schema has been read (ended as a): lines 140-156
ColumnsSchema(a, r) ==
    IF a.exc /= None THEN [d |-> a.d, exc |-> a.exc, ret |-> None]
    ELSE LET columns_schema == TableColumns(a.d.schema[1], r._table_name)
         IN  IF columns_schema = <<>> THEN [d |-> a.d, exc |-> None, ret |-> None]
             ELSE IF ~TruthySeq(r._selected_columns)
             THEN [d |-> a.d, exc |-> None, ret |-> Some(columns_schema)]
             ELSE FilterColumns(a.d, r._selected_columns[1], 1, columns_schema, <<>>)

\* compute_columns_schema: ret is None or the column mapping
ComputeColumnsSchema(d, r) == ColumnsSchema(Reads(d, 2), r)

\* (mutation of Selector: the column names are escaped as they were asked for)
SelectorAsAsked(r) ==
    IF TruthySeq(r._selected_columns)
    THEN [i \in 1..Len(r._selected_columns[1]) |-> EscapeColumnName(r._selected_columns[1][i])]
    ELSE <<"*">>

\* the selector of the query (lines 118-125)
Selector(r) ==
    IF TruthySeq(r._selected_columns)
    THEN [i \in 1..Len(r._selected_columns[1]) |->
              EscapeColumnName(NormalizePath(r._selected_columns[1][i]))]
    ELSE <<"*">>

\* the query text of a table Relation once sql_client and schema have been read
\* (ended as a): lines 107-127
TableQuery(a, r) ==
    IF a.exc /= None THEN [d |-> a.d, exc |-> a.exc, ret |-> None]
    ELSE LET table_name == MakeQualifiedTableName(NormalizeTablesPath(r._table_name[1]))
             clause == IF TruthyInt(r._limit) THEN LimitClauseSql(r._limit[1]) ELSE <<"", "">>
         IN  [d |-> a.d, exc |-> None,
              ret |-> Some(<<"SELECT", clause[1], Selector(r), "FROM", table_name, clause[2]>>)]

\* Relation.query
Query(d, r) ==
    IF TruthyStr(r._provided_query)
    THEN [d |-> d, exc |-> None, ret |-> Some(<<r._provided_query[1]>>)]
    ELSE TableQuery(Reads(d, 2 + (IF TruthyInt(r._limit) THEN 1 ELSE 0)
                               + (IF TruthySeq(r._selected_columns)
                                  THEN 2 * Len(r._selected_columns[1]) ELSE 0)), r)

\* (mutation of limit: the limit is set on self, and self is returned)
limitInPlace(d, rs, i, n) ==
    IF TruthyStr(rs[i]._provided_query)
    THEN [d |-> d, rels |-> rs, exc |-> Some(HasQuery), ret |-> None, copies |-> 0]
    ELSE [d |-> d, rels |-> [rs EXCEPT ![i]._limit = Some(n)], exc |-> None, ret |-> Some(i),
          copies |-> 0]

\* the mutated limit: the schema is resolved before the copy is made
limitResolving(d, rs, i, n) ==
    IF TruthyStr(rs[i]._provided_query)
    THEN [d |-> d, rels |-> rs, exc |-> Some(HasQuery), ret |-> None, copies |-> 0]
    ELSE [d |-> SchemaProperty(d).d,
          rels |-> Append(rs, [Copy(rs[i]).obj[1] EXCEPT !._limit = Some(n)]),
          exc |-> None, ret |-> Some(Len(rs) + 1), copies |-> 1]

\* limit() on object i of rs: the objects after the call, the object id it returns
\* or the error it raises, and the number of copies it made
limit(d, rs, i, n) ==
    IF TruthyStr(rs[i]._provided_query)
    THEN [d |-> d, rels |-> rs, exc |-> Some(HasQuery), ret |-> None, copies |-> 0]
    ELSE LET rel == [Copy(rs[i]).obj[1] EXCEPT !._limit = Some(n)]
         IN  [d |-> d, rels |-> Append(rs, rel), exc |-> None, ret |-> Some(Len(rs) + 1),
              copies |-> 1]

\* select() once the copy rel is made and compute_columns_schema on it has ended
\* as c (line 213)
Selected(rs, rel, c) ==
    IF c.exc /= None
    THEN [d |-> c.d, rels |-> rs, exc |-> c.exc, ret |-> None, copies |-> 1]
    ELSE [d |-> c.d, rels |-> Append(rs, rel), exc |-> None,
          ret |-> Some(Len(rs) + 1), copies |-> 1]

\* (mutation of select: no check of self._provided_query)
selectUnchecked(d, rs, i, columns) ==
    LET rel == [rs[i] EXCEPT !._selected_columns = Some(columns)]
    IN  Selected(rs, rel, ComputeColumnsSchema(d, rel))

\* (mutation of select: the copy is returned without compute_columns_schema)
selectLazy(d, rs, i, columns) ==
    IF TruthyStr(rs[i]._provided_query)
    THEN [d |-> d, rels |-> rs, exc |-> Some(HasQuery), ret |-> None, copies |-> 0]
    ELSE LET rel == [Copy(rs[i]).obj[1] EXCEPT !._selected_columns = Some(columns)]
         IN  [d |-> d, rels |-> Append(rs, rel), exc |-> None, ret |-> Some(Len(rs) + 1),
              copies |-> 1]

\* select()
select(d, rs, i, columns) ==
    IF TruthyStr(rs[i]._provided_query)
    THEN [d |-> d, rels |-> rs, exc |-> Some(HasQuery), ret |-> None, copies |-> 0]
    ELSE LET rel == [Copy(rs[i]).obj[1] EXCEPT !._selected_columns = Some(columns)]
         IN  Selected(rs, rel, ComputeColumnsSchema(d, rel))

\* __getitem__
getitem(d, rs, i, columns) ==
    IF columns[1] \in {"str", "seq"}
    THEN select(d, rs, i, IF columns[1] = "str" THEN <<columns[2]>> ELSE columns[2])
    ELSE [d |-> d, rels |-> rs, exc |-> Some("TypeError"), ret |-> None, copies |-> 0]

\* head(limit=5)
HeadDefault == 5
head(d, rs, i, arg) == limit(d, rs, i, IF arg = None THEN HeadDefault ELSE arg[1])

\* the exits of the two with statements of cursor() (lines 161 and 167), innermost
\* first, appended to the events so far
ReleaseScopes(log, cursor_opened) ==
    log \o (IF cursor_opened THEN <<"close_cursor">> ELSE <<>>) \o <<"close_session">>

\* the session of the sql client after the events of `log`: entering the client
\* (with self.sql_client, line 161) opens it and leaving the with statement closes
\* it, whoever else is inside
RECURSIVE SessionAfter(_, _)
SessionAfter(open, log) ==
    IF log = <<>> THEN open
    ELSE SessionAfter(IF log[1] = "open_session" THEN TRUE
                      ELSE IF log[1] = "close_session" THEN FALSE
                      ELSE open,
                      Tail(log))

\* cursor() after execute_query: self.columns_schema has ended as c (line 168),
\* the cursor is yielded (line 169)
CursorYield(c, executed, query) ==
    IF c.exc /= None
    THEN [d |-> c.d, exc |-> c.exc, log |-> ReleaseScopes(executed, TRUE), cursor |-> None]
    ELSE [d |-> c.d, exc |-> None, log |-> executed,
          cursor |-> Some([query |-> query, columns_schema |-> c.ret])]

\* cursor() inside the session: self.query has ended as q, execute_query (line 167)
CursorExecute(q, r, execute_ok, opened) ==
    IF q.exc /= None
    THEN [d |-> q.d, exc |-> q.exc, log |-> ReleaseScopes(opened, FALSE), cursor |-> None]
    ELSE IF ~execute_ok
    THEN [d |-> q.d, exc |-> Some("DatabaseError"),
          log |-> ReleaseScopes(opened, FALSE), cursor |-> None]
    ELSE CursorYield(ComputeColumnsSchema(q.d, r), Append(opened, "execute_query"), q.ret[1])

\* cursor(): self.sql_client has ended as a, the session is entered (line 161)
CursorSession(a, r, execute_ok) ==
    IF a.exc /= None THEN [d |-> a.d, exc |-> a.exc, log |-> <<>>, cursor |-> None]
    ELSE CursorExecute(Query(a.d, r), r, execute_ok, <<"open_session">>)

\* cursor() up to its yield: the events, and the cursor yielded or the error raised
\* (the autocommit switch of lines 165-166 reads sql_client again and changes
\* nothing that is modelled)
CursorEnter(d, r, execute_ok) == CursorSession(SqlClientProperty(d), r, execute_ok)

\* (mutation of WrapFunc: the cursor is not held in a with statement, a failing
\* call leaves it and the session open)
ForwardNoRelease(e, func_name, call_ok) ==
    IF e.exc /= None THEN [d |-> e.d, exc |-> e.exc, log |-> e.log, ret |-> None]
    ELSE LET used == Append(e.log, "use_cursor")
         IN  [d |-> e.d,
              exc |-> IF call_ok THEN None ELSE Some("CallError"),
              log |-> IF call_ok THEN ReleaseScopes(used, TRUE) ELSE used,
              ret |-> IF call_ok THEN Some(<<func_name, e.cursor[1]>>) ELSE None]

WrapFuncNoRelease(d, r, func_name, execute_ok, call_ok) ==
    ForwardNoRelease(CursorEnter(d, r, execute_ok), func_name, call_ok)

\* the body of _wrap_func (lines 185-186): cursor() has ended as e, the call is
\* forwarded to the cursor and the with statement exits
Forward(e, func_name, call_ok) ==
    IF e.exc /= None THEN [d |-> e.d, exc |-> e.exc, log |-> e.log, ret |-> None]
    ELSE LET used == Append(e.log, "use_cursor")
         IN  [d |-> e.d,
              exc |-> IF call_ok THEN None ELSE Some("CallError"),
              log |-> ReleaseScopes(used, TRUE),
              ret |-> IF call_ok THEN Some(<<func_name, e.cursor[1]>>) ELSE None]

\* _wrap_func: one wrapped cursor function, run to its end
WrapFunc(d, r, func_name, execute_ok, call_ok) ==
    Forward(CursorEnter(d, r, execute_ok), func_name, call_ok)

\* (mutation of WrapIter: the generator made for a Relation is kept and handed
\* out again by the next call)
WrapIterCached(gs, i, func_name) ==
    IF \E k \in DOMAIN gs : gs[k].rel = i
    THEN [gens |-> gs, ret |-> CHOOSE k \in DOMAIN gs : gs[k].rel = i]
    ELSE [gens |-> Append(gs, [rel |-> i, st |-> "new"]), ret |-> Len(gs) + 1]

\* _wrap_iter: calling the wrapped function (line 175) makes a generator object of
\* Relation i; none of its body has run.  (func_name decides only which items
\* the generator gives, and the items are not told apart.)
WrapIter(gs, i, func_name) ==
    [gens |-> Append(gs, [rel |-> i, st |-> "new"]), ret |-> Len(gs) + 1]

\* yield from getattr(cursor, func_name)(...) (line 177), inside the with
\* statement of line 176 whose events so far are `log`: an item is given and the
\* generator is suspended, or the iterator ends or raises and the with statement
\* exits
IterStep(d, log, outcome) ==
    IF outcome = "item"
    THEN [d |-> d, exc |-> None, log |-> log, ret |-> Some("item"), st |-> "open"]
    ELSE [d |-> d, exc |-> Some(IF outcome = "end" THEN "StopIteration" ELSE "IterError"),
          log |-> ReleaseScopes(log, TRUE), ret |-> None, st |-> "done"]

\* the first next() of a generator: cursor() has ended as e (line 176)
IterStart(e, outcome) ==
    IF e.exc /= None
    THEN [d |-> e.d, exc |-> e.exc, log |-> e.log, ret |-> None, st |-> "done"]
    ELSE IterStep(e.d, e.log, outcome)

\* next() on generator g
GenNext(d, rs, g, execute_ok, outcome) ==
    IF g.st = "new" THEN IterStart(CursorEnter(d, rs[g.rel], execute_ok), outcome)
    ELSE IterStep(d, <<>>, outcome)

\* close() on generator g, or g being dropped: GeneratorExit is raised where the
\* generator is suspended and the with statement of line 176 exits; a generator
\* that has not started has nothing to exit
GenClose(d, g) ==
    [d |-> d, exc |-> None, ret |-> None, st |-> "done",
     log |-> IF g.st = "open" THEN ReleaseScopes(<<>>, TRUE) ELSE <<>>]

\* ------------------------------------------------------------------ actions
\* what the Dataset looked like when the call started
Before == [schema |-> _schema, sql_client |-> _sql_client,
           clients |-> Len(clients), lookups |-> Len(lookups), rels |-> rels,
           gens |-> gens, session |-> session]

\* the record of a call that has ended: the operation, the object id it was called
\* on (0: the Dataset), its arguments, the error raised or the value returned, the
\* session and cursor events it caused, the number of _ensure_client_and_schema
\* calls and of Relation copies it made
Called(op, self, args, d, exc, ret, log, copies) ==
    [op |-> op, self |-> self, args |-> args, exc |-> exc, ret |-> ret, log |-> log,
     msg |-> d.msg, ensures |-> d.ensures, copies |-> copies, before |-> Before]

\* nothing is being returned: the caller is free to make its next call
NoCall == [op |-> "none"]
Idle == last = NoCall

Commit(d) ==
    /\ Idle
    /\ Len(d.clients) <= MaxClients
    /\ _schema' = d.schema
    /\ _sql_client' = d.sql_client
    /\ clients' = d.clients
    /\ lookups' = d.lookups
    /\ next_oid' = d.next_oid
    /\ UNCHANGED << _provided_schema, stored, caps, slots, keep >>

\* ReadableDBAPIDataset.__init__, and a caller that has made no call yet
Constructed ==
    /\ _schema = None
    /\ _sql_client = None
    /\ clients = <<>>
    /\ lookups = <<>>
    /\ next_oid = 1
    /\ rels = <<>>
    /\ ctx = None
    /\ gens = <<>>
    /\ session = FALSE
    /\ last = NoCall

\* every schema hint, destination content and client class; one Relation kept
Init ==
    /\ _provided_schema \in {None, <<"schema", ExplicitSchema>>, <<"str", "s1">>}
    /\ stored \in StoredStates
    /\ caps \in [state_sync : BOOLEAN, sql_client : BOOLEAN]
    /\ slots = DatasetRels
    /\ keep = "first"
    /\ Constructed

\* a schema with known columns or an empty one, with or without a sql client;
\* several Relations kept
InitRel ==
    /\ _provided_schema \in {None, <<"schema", ExplicitSchema>>}
    /\ stored = <<>>
    /\ caps \in [state_sync : {TRUE}, sql_client : BOOLEAN]
    /\ slots = MaxRels
    /\ keep = "first"
    /\ Constructed

\* a call on the Dataset (self = 0) or on Relation `self` that has ended as a and
\* leaves the caller's Relations as they are
Ends(op, self, args, a, log) ==
    /\ Commit(a.d)
    /\ last' = Called(op, self, args, a.d, a.exc, a.ret, log, 0)
    /\ session' = SessionAfter(session, log)
    /\ UNCHANGED << rels, ctx, gens >>

\* dataset.schema
AccessSchema == Ends("schema", 0, <<>>, SchemaProperty(DS), <<>>)

\* dataset.sql_client
AccessSqlClient == Ends("sql_client", 0, <<>>, SqlClientProperty(DS), <<>>)

\* the Relations the caller holds of rs, of which the last may be new: all of them
\* while it has room, else all but the new one or all but the oldest
Kept(rs) ==
    IF Len(rs) <= slots THEN rs
    ELSE IF keep = "latest" THEN Tail(rs)
    ELSE SubSeq(rs, 1, Len(rs) - 1)

\* a call that builds a Relation: dataset.table(name), dataset[name], dataset.name,
\* dataset(query)
NewRelation(op, args, made) ==
    /\ rels' = IF made.exc = None THEN Kept(Append(rels, made.obj[1])) ELSE rels
    /\ last' = Called(op, 0, args, DS, made.exc,
                      IF made.exc = None THEN Some(Len(rels) + 1) ELSE None, <<>>, 0)
    /\ Commit(DS)
    /\ UNCHANGED << ctx, gens, session >>

Table == \E t \in TableNames : NewRelation("table", <<t>>, RelationInit(None, Some(t), None, None))

Call == \E q \in Queries : NewRelation("call", <<q>>, RelationInit(Some(q), None, None, None))

\* ReadableDBAPIRelation(readable_dataset=dataset, provided_query=..., table_name=...)
\* called directly, the other parameters left at their defaults
Construct ==
    \E pq \in {None} \cup {Some(q) : q \in Queries}, tn \in {None} \cup {Some(t) : t \in TableNames} :
        NewRelation("init", <<pq, tn>>, RelationInit(pq, tn, None, None))

\* a call on Relation i that returns a refined Relation or raises
Refine(op, i, args, r) ==
    /\ rels' = Kept(r.rels)
    /\ last' = Called(op, i, args, r.d, r.exc, r.ret, <<>>, r.copies)
    /\ Commit(r.d)
    /\ UNCHANGED << ctx, gens, session >>

DoLimit == \E i \in DOMAIN rels, n \in LimitArgs : Refine("limit", i, <<n>>, limit(DS, rels, i, n))

DoHead == \E i \in DOMAIN rels, a \in HeadArgs : Refine("head", i, a, head(DS, rels, i, a))

DoSelect == \E i \in DOMAIN rels, cs \in ColumnArgs : Refine("select", i, cs, select(DS, rels, i, cs))

DoGetItem == \E i \in DOMAIN rels, a \in GetItemArgs : Refine("getitem", i, a, getitem(DS, rels, i, a))

\* relation.query
GetQuery == \E i \in DOMAIN rels : Ends("query", i, <<>>, Query(DS, rels[i]), <<>>)

\* relation.columns_schema
GetColumnsSchema ==
    \E i \in DOMAIN rels :
        Ends("columns_schema", i, <<>>, ComputeColumnsSchema(DS, rels[i]), <<>>)

\* a wrapped cursor function that has ended as w
Fetched(i, args, w) == Ends("fetch", i, args, w, w.log)

\* relation.df(), arrow(), fetchall(), fetchmany(), fetchone()
Fetch ==
    \E i \in DOMAIN rels, f \in FetchFuncs, o \in {<<TRUE, TRUE>>, <<TRUE, FALSE>>, <<FALSE, TRUE>>} :
        Fetched(i, <<f, o[1], o[2]>>, WrapFunc(DS, rels[i], f, o[1], o[2]))

\* cursor() on Relation i has ended as e: the caller is inside the scope, or has
\* the error
Entered(i, execute_ok, e) ==
    /\ e.exc = None => ctx = None
    /\ Commit(e.d)
    /\ ctx' = IF e.exc = None THEN Some([rel |-> i, log |-> e.log]) ELSE ctx
    /\ last' = Called("cursor", i, <<execute_ok>>, e.d, e.exc, e.cursor, e.log, 0)
    /\ session' = SessionAfter(session, e.log)
    /\ UNCHANGED << rels, gens >>

\* with relation.cursor() as cursor: the caller enters the scope
CursorOpen ==
    \E i \in DOMAIN rels, execute_ok \in BOOLEAN :
        Entered(i, execute_ok, CursorEnter(DS, rels[i], execute_ok))

\* the caller's body ends, normally or by raising: the innermost scope exits
CursorClose ==
    \E body_ok \in BOOLEAN :
        /\ ctx /= None
        /\ last' = Called("cursor_exit", ctx[1].rel, <<body_ok>>, DS,
                          IF body_ok THEN None ELSE Some("BodyError"), None,
                          ReleaseScopes(ctx[1].log, TRUE), 0)
        /\ ctx' = None
        /\ session' = SessionAfter(session, ReleaseScopes(<<>>, TRUE))
        /\ Commit(DS)
        /\ UNCHANGED << rels, gens >>

\* gens without its k-th generator
Without(gs, k) == SubSeq(gs, 1, k - 1) \o SubSeq(gs, k + 1, Len(gs))

\* relation.iter_df(...), iter_arrow(...), iter_fetch(...): the call itself
Iterated(i, f, w) ==
    /\ gens' = w.gens
    /\ last' = Called("iter", i, <<f>>, DS, None, Some(w.ret), <<>>, 0)
    /\ Commit(DS)
    /\ UNCHANGED << rels, ctx, session >>

IterCall ==
    \E i \in DOMAIN rels, f \in IterFuncs :
        /\ Len(gens) < MaxGens
        /\ Iterated(i, f, WrapIter(gens, i, f))

\* a step of generator k has ended as n: the generator is suspended at its yield,
\* or it is finished and the caller lets go of it
Stepped(op, k, args, n) ==
    /\ Commit(n.d)
    /\ last' = Called(op, gens[k].rel, args, n.d, n.exc, n.ret, n.log, 0)
    /\ gens' = IF n.st = "done" THEN Without(gens, k) ELSE [gens EXCEPT ![k].st = n.st]
    /\ session' = SessionAfter(session, n.log)
    /\ UNCHANGED << rels, ctx >>

\* next(generator): the caller pulls one item
Pull ==
    \E k \in DOMAIN gens, execute_ok \in BOOLEAN, outcome \in PullOutcomes :
        /\ gens[k].st = "open" => execute_ok
        /\ ~execute_ok => outcome = "end"
        /\ Stepped("pull", k, <<k, gens[k].st, execute_ok, outcome>>,
                   GenNext(DS, rels, gens[k], execute_ok, outcome))

\* the caller abandons a generator before its end (break, close(), or the last
\* reference is dropped)
Abandon ==
    \E k \in DOMAIN gens :
        Stepped("close", k, <<k, gens[k].st>>, GenClose(DS, gens[k]))

\* the caller takes what the call returned or raised and goes on
Return ==
    /\ ~Idle
    /\ last' = NoCall
    /\ UNCHANGED << _provided_schema, stored, caps, _schema, _sql_client, clients, lookups,
                    next_oid, rels, slots, keep, ctx, gens, session >>

Next ==
    \/ Return
    \/ AccessSchema
    \/ AccessSqlClient
    \/ Table
    \/ Call
    \/ DoLimit
    \/ DoHead
    \/ DoSelect
    \/ DoGetItem
    \/ GetQuery
    \/ GetColumnsSchema
    \/ Fetch
    \/ CursorOpen
    \/ CursorClose

Spec == Init /\ [][Next]_vars

SpecRel == InitRel /\ [][Next]_vars

\* lazy sequences next to eager calls on the Relations of one Dataset, with or
\* without a sql client
InitIter ==
    /\ _provided_schema = <<"schema", ExplicitSchema>>
    /\ stored = <<>>
    /\ caps \in [state_sync : {TRUE}, sql_client : BOOLEAN]
    /\ slots = DatasetRels
    /\ keep = "first"
    /\ Constructed

NextIter ==
    \/ Return
    \/ Table
    \/ Call
    \/ IterCall
    \/ Pull
    \/ Abandon
    \/ Fetch
    \/ CursorOpen
    \/ CursorClose

SpecIter == InitIter /\ [][NextIter]_vars

\* chains of refinements of any length, built by a caller that lets go of the
\* Relation it has held longest, and the query of each
InitQuery ==
    /\ _provided_schema = <<"schema", ExplicitSchema>>
    /\ stored = <<>>
    /\ caps = [state_sync |-> TRUE, sql_client |-> TRUE]
    /\ slots = DatasetRels
    /\ keep = "latest"
    /\ Constructed

NextQuery ==
    \/ Return
    \/ Table
    \/ Call
    \/ Construct
    \/ DoLimit
    \/ DoHead
    \/ DoSelect
    \/ DoGetItem
    \/ GetQuery

SpecQuery == InitQuery /\ [][NextQuery]_vars

\* ------------------------------------------------ the module-level functions
\* the kinds of configuration class a destination declares as its spec:
\* DestinationClientConfiguration, DestinationClientDwhConfiguration,
\* DestinationClientStagingConfiguration (a Dwh configuration with a staging
\* role) and DestinationClientDwhWithStagingConfiguration (a Dwh configuration
\* with a staging section)
SpecKinds == {"Configuration", "Dwh", "Staging", "DwhWithStaging"}
IsDwh(kind) == kind \in {"Dwh", "Staging", "DwhWithStaging"}
IsStaging(kind) == kind = "Staging"
IsDwhWithStaging(kind) == kind = "DwhWithStaging"

\* a destination: its destination_type, the kind of its spec and whether its
\* driver module is installed
Destinations == [destination_type : {"postgres"}, spec : SpecKinds, driver : BOOLEAN]
Stagings == [destination_type : {"filesystem"}, spec : SpecKinds, driver : BOOLEAN]

DLT_PKG_NAME == "dlt"
StagingDatasetName == "d_staging"
DefaultSchemaName == "x"
DatasetTypes == {"dbapi", "ibis", ""}

\* a configuration of client_spec as the class makes it
ClientSpec(kind, as_staging) ==
    [kind |-> kind,
     as_staging_destination |-> IF IsStaging(kind) THEN Some(as_staging) ELSE None,
     dataset_name |-> None, default_schema_name |-> None, staging_config |-> None]

\* spec._bind_dataset_name
BindDatasetName(spec, dataset_name, default_schema_name) ==
    [spec EXCEPT !.dataset_name = Some(dataset_name),
                 !.default_schema_name = Some(default_schema_name)]

\* configurations a caller supplies: of any kind, bound by the caller
SuppliedConfigs ==
    { IF IsDwh(k) THEN BindDatasetName(ClientSpec(k, FALSE), "own", "own_schema")
      ELSE ClientSpec(k, FALSE) : k \in SpecKinds }

\* get_destination_client_initial_config
get_destination_client_initial_config(destination, default_schema_name, dataset_name, as_staging) ==
    IF IsDwh(destination.spec)
    THEN BindDatasetName(ClientSpec(destination.spec, IsStaging(destination.spec) /\ as_staging),
                         dataset_name, default_schema_name)
    ELSE ClientSpec(destination.spec, FALSE)

\* destination.client(schema, initial_config) after the constructions of log:
\* importing the driver fails when its module is missing
Client(role, destination, initial_config, log) ==
    IF destination.driver
    THEN [exc |-> None,
          client |-> Some([destination_type |-> destination.destination_type,
                           config |-> initial_config]),
          log |-> Append(log, [ev |-> "client", role |-> role, config |-> initial_config])]
    ELSE [exc |-> Some("ModuleNotFoundError"), client |-> None, log |-> log]

\* lines 375-386: the staging client
StagingClient(staging, staging_dataset_name, staging_initial_config, default_schema_name) ==
    IF staging = None THEN [exc |-> None, client |-> None, log |-> <<>>]
    ELSE Client("staging", staging[1],
             IF staging_initial_config = None
             THEN get_destination_client_initial_config(staging[1], default_schema_name,
                                                        staging_dataset_name, TRUE)
             ELSE staging_initial_config[1],
             <<>>)

\* lines 388-394: the local initial_config, assigned only when no configuration
\* was passed
InitialConfig(destination, destination_dataset_name, destination_initial_config, default_schema_name) ==
    IF destination_initial_config = None
    THEN Some(get_destination_client_initial_config(destination, default_schema_name,
                                                    destination_dataset_name, FALSE))
    ELSE None

\* lines 397-402: whether the staging configuration is attached
Attaches(staging_client, initial_config) ==
    /\ staging_client /= None
    /\ IsDwhWithStaging(initial_config.kind)
    /\ IsStaging(staging_client[1].config.kind)

\* line 405: the pair returned, c the construction of the destination client
Paired(s, c) ==
    IF c.exc /= None THEN [exc |-> c.exc, ret |-> None, log |-> c.log]
    ELSE [exc |-> None, ret |-> Some([client |-> c.client[1], staging_client |-> s.client]),
          log |-> c.log]

\* lines 396-405 once the staging client s is there: reading the unassigned
\* local fails, at line 399 or at line 404
ClientPair(destination, s, initial_config) ==
    IF s.exc /= None THEN [exc |-> s.exc, ret |-> None, log |-> s.log]
    ELSE IF initial_config = None
    THEN [exc |-> Some("UnboundLocalError"), ret |-> None, log |-> s.log]
    ELSE IF Attaches(s.client, initial_config[1])
    THEN Paired(s, Client("destination", destination,
                    [initial_config[1] EXCEPT !.staging_config = Some(s.client[1].config)],
                    Append(s.log, [ev |-> "attach", role |-> "destination",
                                   config |-> s.client[1].config])))
    ELSE Paired(s, Client("destination", destination, initial_config[1], s.log))

\* the mutated handler: a missing module is left as it is
Raw(destination, e) ==
    [exc |-> e.exc, ret |-> e.ret, log |-> e.log, dependency |-> None]

\* lines 406-412: a missing module becomes MissingDependencyException for the
\* destination's type
Wrapped(destination, e) ==
    IF e.exc = Some("ModuleNotFoundError")
    THEN [exc |-> Some("MissingDependencyException"), ret |-> None, log |-> e.log,
          dependency |-> Some([caller |-> <<destination.destination_type, "destination">>,
                               dependencies |-> << <<DLT_PKG_NAME, destination.destination_type>> >>])]
    ELSE [exc |-> e.exc, ret |-> e.ret, log |-> e.log, dependency |-> None]

\* get_destination_clients
get_destination_clients(destination, destination_dataset_name, destination_initial_config, staging, staging_dataset_name, staging_initial_config, default_schema_name) ==
    Wrapped(destination,
            ClientPair(destination,
                       StagingClient(staging, staging_dataset_name, staging_initial_config,
                                     default_schema_name),
                       InitialConfig(destination, destination_dataset_name,
                                     destination_initial_config, default_schema_name)))

\* the mutated factory: every dataset_type gives a Dataset
datasetOfAnyType(schema, dataset_type) ==
    [exc |-> None, ret |-> Some([_provided_schema |-> schema, _schema |-> None, _sql_client |-> None])]

\* dataset(): the Dataset as __init__ leaves it, for "dbapi" only
dataset(schema, dataset_type) ==
    IF dataset_type = "dbapi"
    THEN [exc |-> None,
          ret |-> Some([_provided_schema |-> schema, _schema |-> None, _sql_client |-> None])]
    ELSE [exc |-> Some("NotImplementedError"), ret |-> None]

\* a call of dataset(destination, dataset_name, schema, dataset_type): the Dataset
\* it returns takes the place of the one the caller held
Made(schema, dataset_type, made) ==
    /\ Idle
    /\ last' = [op |-> "dataset", args |-> <<schema, dataset_type>>, exc |-> made.exc,
                ret |-> made.ret, before |-> [provided_schema |-> _provided_schema]]
    /\ IF made.exc = None
       THEN /\ _provided_schema' = made.ret[1]._provided_schema
            /\ _schema' = made.ret[1]._schema
            /\ _sql_client' = made.ret[1]._sql_client
       ELSE UNCHANGED << _provided_schema, _schema, _sql_client >>
    /\ UNCHANGED << stored, caps, clients, lookups, next_oid, rels, slots, keep, ctx, gens,
                    session >>

DatasetFactory ==
    \E schema \in {None, <<"schema", ExplicitSchema>>, <<"str", "s1">>},
       dataset_type \in DatasetTypes :
        Made(schema, dataset_type, dataset(schema, dataset_type))

\* a call of get_destination_clients
ClientsCalled(args, e) ==
    /\ Idle
    /\ last' = [op |-> "get_destination_clients", args |-> args, exc |-> e.exc,
                ret |-> e.ret, log |-> e.log, dependency |-> e.dependency]
    /\ UNCHANGED << _provided_schema, stored, caps, _schema, _sql_client, clients, lookups,
                    next_oid, rels, slots, keep, ctx, gens, session >>

GetDestinationClients ==
    \E destination \in Destinations,
       destination_initial_config \in {None} \cup {Some(c) : c \in SuppliedConfigs},
       staging \in {None} \cup {Some(x) : x \in Stagings},
       staging_initial_config \in {None} \cup {Some(c) : c \in SuppliedConfigs} :
        ClientsCalled([destination |-> destination,
                   destination_initial_config |-> destination_initial_config,
                   staging |-> staging, staging_initial_config |-> staging_initial_config],
                  get_destination_clients(destination, DatasetName, destination_initial_config,
                                          staging, StagingDatasetName, staging_initial_config,
                                          DefaultSchemaName))

InitFuncs ==
    /\ _provided_schema = None
    /\ stored = <<>>
    /\ caps = [state_sync |-> TRUE, sql_client |-> TRUE]
    /\ slots = DatasetRels
    /\ keep = "first"
    /\ Constructed

NextFuncs ==
    \/ Return
    \/ DatasetFactory
    \/ GetDestinationClients

SpecFuncs == InitFuncs /\ [][NextFuncs]_vars
\* ------------------------------------------------------------------- claims
\* the _destination_client calls of line 299, and the client the sql client is of
Production == { i \in DOMAIN clients : clients[i].line = 299 }
Placeholders == { i \in DOMAIN clients : clients[i].line /= 299 }
Resolved == _schema /= None /\ _sql_client /= None
HintIs(kind) == _provided_schema /= None /\ _provided_schema[1] = kind
\* every client of line 299 is bound to the resolved Schema object, and is made
\* after the clients of the lookups
BoundToResolved ==
    /\ \A i \in Production : clients[i].schema = _schema[1]
    /\ \A i \in Production, j \in Placeholders : j < i /\ clients[j].schema.oid /= _schema[1].oid
    /\ _sql_client /= None => _sql_client[1].client \in Production

\* C1: once schema and sql client are resolved, every later call (schema,
\* sql_client, or an operation of a Relation) leaves _schema and _sql_client as
\* they were, constructs no client and makes no lookup, and schema / sql_client
\* return the stored objects
C1_SingleResolution ==
    (~Idle /\ last.before.schema /= None /\ last.before.sql_client /= None) =>
        /\ _schema = last.before.schema
        /\ _sql_client = last.before.sql_client
        /\ Len(clients) = last.before.clients
        /\ Len(lookups) = last.before.lookups
        /\ last.op = "schema" => (last.exc = None /\ last.ret = last.before.schema)
        /\ last.op = "sql_client" => (last.exc = None /\ last.ret = last.before.sql_client)
        /\ last.exc /= Some("Exception")

C1_Witness ==
    /\ ~Idle
    /\ last.op = "fetch"
    /\ last.exc = None
    /\ last.before.sql_client /= None
    /\ HintIs("str")
    /\ Len(lookups) = 1

\* C2: with an explicit Schema, the resolved schema is that object, no stored
\* schema is looked up, and every client constructed is a client of line 299
\* bound to that object
C2_ExplicitSchema ==
    HintIs("schema") =>
        /\ lookups = <<>>
        /\ Placeholders = {}
        /\ \A i \in DOMAIN clients : clients[i].schema = _provided_schema[2]
        /\ _schema /= None => _schema = Some(_provided_schema[2])

C2_Witness ==
    /\ HintIs("schema")
    /\ Resolved
    /\ stored /= <<>>
    /\ caps.state_sync
    /\ Len(clients) = 1

\* C3 (as claimed): with a schema name and no stored schema of that name, the
\* resolved schema is an empty Schema of that name, for every client class
C3_NamedFallback ==
    (HintIs("str") /\ Resolved /\ GetStoredSchema(Some(_provided_schema[2])) = None) =>
        /\ _schema[1].name = _provided_schema[2]
        /\ _schema[1].tables = NoTables
        /\ BoundToResolved

\* C4: when the client reads stored schemas and one is stored, the resolved schema
\* is that row deserialized: the newest of the given name (one named lookup, on a
\* placeholder of that name), or the newest (one unnamed lookup, on a placeholder
\* of the dataset name); the clients of line 299 are bound to it and come later
C4_StoredSchemaLoaded ==
    LET name == IF HintIs("str") THEN Some(_provided_schema[2]) ELSE None
        row == GetStoredSchema(name)
    IN  (~HintIs("schema") /\ caps.state_sync /\ row /= None /\ _schema /= None) =>
            /\ _schema[1].name = JsonLoads(row[1].schema).name
            /\ _schema[1].tables = JsonLoads(row[1].schema).tables
            /\ row[1] \in {stored[k] : k \in DOMAIN stored}
            /\ name /= None => row[1].schema_name = name[1]
            /\ name = None => row[1] = stored[Len(stored)]
            /\ lookups = << [client |-> 1, name |-> name] >>
            /\ clients[1].line /= 299
            /\ clients[1].schema.name = (IF HintIs("str") THEN _provided_schema[2] ELSE DatasetName)
            /\ BoundToResolved

C4_Witness ==
    /\ HintIs("str")
    /\ caps.state_sync
    /\ Resolved
    /\ Len(stored) = 2
    /\ _schema[1].name = "s1"
    /\ _schema[1].tables /= NoTables

\* C5: with no schema hint, when nothing is stored or the client cannot read
\* stored schemas, the resolved schema is an empty Schema named after the dataset,
\* and the client of line 299 is bound to it
C5_DatasetNameFallback ==
    (_provided_schema = None /\ (stored = <<>> \/ ~caps.state_sync) /\ _schema /= None) =>
        /\ _schema[1].name = DatasetName
        /\ _schema[1].tables = NoTables
        /\ BoundToResolved

C5_Witness ==
    /\ _provided_schema = None
    /\ ~caps.state_sync
    /\ stored /= <<>>
    /\ Resolved

\* the calls that refine a Relation, the Relation they were called on, and the
\* columns a select / indexed access asked for
RefineOps == {"limit", "head", "select", "getitem"}
Refining == ~Idle /\ last.op \in RefineOps
Self == last.before.rels[last.self]
RawSelf == TruthyStr(Self._provided_query)
Requested ==
    IF last.op = "select" THEN last.args
    ELSE IF last.op = "getitem" /\ last.args[1] = "str" THEN <<last.args[2]>>
    ELSE IF last.op = "getitem" /\ last.args[1] = "seq" THEN last.args[2]
    ELSE <<>>
DatasetUntouched ==
    /\ _schema = last.before.schema
    /\ _sql_client = last.before.sql_client
    /\ Len(clients) = last.before.clients
    /\ Len(lookups) = last.before.lookups
    /\ last.ensures = 0

\* C6: limit, select, head and indexed access, failing or not, leave every
\* existing Relation object as it was; a successful call returns a new object, a
\* copy of the one it was called on with the one field set
C6_RefinementCopies ==
    Refining =>
        /\ Len(rels) >= Len(last.before.rels)
        /\ \A i \in DOMAIN last.before.rels : rels[i] = last.before.rels[i]
        /\ last.exc = None =>
               /\ ~RawSelf
               /\ last.copies = 1
               /\ last.ret = Some(Len(last.before.rels) + 1)
        /\ Len(rels) > Len(last.before.rels) =>
               /\ last.exc = None
               /\ rels[Len(rels)]._table_name = Self._table_name
               /\ rels[Len(rels)]._provided_query = None
               /\ IF last.op \in {"limit", "head"}
                  THEN /\ rels[Len(rels)]._selected_columns = Self._selected_columns
                       /\ rels[Len(rels)]._limit /= None
                  ELSE /\ rels[Len(rels)]._limit = Self._limit
                       /\ rels[Len(rels)]._selected_columns = Some(Requested)

C6_Witness ==
    /\ Refining
    /\ last.op = "select"
    /\ last.self = 1
    /\ Len(rels) = 2
    /\ rels[1]._table_name = Some("t")
    /\ rels[1]._selected_columns = None
    /\ rels[2]._selected_columns = Some(<<"B", "a", "B">>)

\* C7 (as claimed): on a raw-query Relation limit, select, head and indexed access
\* raise ReadableRelationHasQueryException for any argument, make no copy, change
\* nothing and do not touch the Dataset
C7_RawQueryImmutable ==
    (Refining /\ RawSelf) =>
        /\ last.exc = Some(HasQuery)
        /\ last.copies = 0
        /\ rels = last.before.rels
        /\ DatasetUntouched

\* C7 (amended): the same, except that indexed access with an argument that is
\* neither a str nor a Sequence raises TypeError
C7_RawQueryImmutableTyped ==
    (Refining /\ RawSelf) =>
        /\ last.exc = (IF last.op = "getitem" /\ last.args[1] = "other"
                       THEN Some("TypeError") ELSE Some(HasQuery))
        /\ last.copies = 0
        /\ rels = last.before.rels
        /\ DatasetUntouched

C7_Witness ==
    /\ Refining
    /\ RawSelf
    /\ last.op = "getitem"
    /\ last.args = <<"str", "z">>
    /\ last.exc = Some(HasQuery)
    /\ _schema = None

\* the columns the resolved schema knows for the table of Relation r
Known(r) == TableColumns(_schema[1], r._table_name)
AllKnown(r, columns) ==
    \A k \in DOMAIN columns : DictHas(Known(r), NormalizePath(columns[k]))

\* C8: on a table with known columns, select / indexed access with a column whose
\* normalized name is not among them raises ReadableRelationUnknownColumnException
\* there and then, whatever limit or selection the Relation carries; no Relation
\* with such a column exists, and cursor() and the fetch functions never raise it
C8_EagerColumnValidation ==
    /\ (Refining /\ last.op \in {"select", "getitem"} /\ ~RawSelf /\ _sql_client /= None
            /\ Known(Self) /= <<>> /\ ~AllKnown(Self, Requested)) =>
           /\ last.exc = Some(UnknownColumn)
           /\ rels = last.before.rels
    /\ (~Idle /\ last.op \in {"fetch", "cursor", "cursor_exit", "columns_schema", "query"}) =>
           last.exc /= Some(UnknownColumn)
    /\ _sql_client /= None =>
           \A i \in DOMAIN rels :
               (TruthySeq(rels[i]._selected_columns) /\ Known(rels[i]) /= <<>>) =>
                   AllKnown(rels[i], rels[i]._selected_columns[1])

C8_Witness ==
    /\ Refining
    /\ last.op = "select"
    /\ last.args = <<"a", "z">>
    /\ last.exc = Some(UnknownColumn)
    /\ Self._limit = Some(2)
    /\ Self._table_name = Some("t")

\* the distinct elements of a sequence, in the order of their first occurrence
RECURSIVE Distinct(_, _)
Distinct(seq, acc) ==
    IF seq = <<>> THEN acc
    ELSE Distinct(Tail(seq),
                  IF \E k \in DOMAIN acc : acc[k] = seq[1] THEN acc ELSE Append(acc, seq[1]))

\* C9: columns_schema is None for a raw query or a table without known columns,
\* the table's full mapping when no columns are selected, and otherwise the
\* mapping of the normalized selected names, in the order they were asked for,
\* each to the descriptor the table schema holds for it
C9_ColumnsSchema ==
    (~Idle /\ last.op = "columns_schema" /\ _sql_client /= None) =>
        LET r == rels[last.self]
            full == Known(r)
            sel == r._selected_columns
            wanted == [k \in DOMAIN sel[1] |-> NormalizePath(sel[1][k])]
        IN  /\ last.exc = None
            /\ (RawSelf \/ full = <<>>) => last.ret = None
            /\ (full /= <<>> /\ ~TruthySeq(sel)) => last.ret = Some(full)
            /\ (full /= <<>> /\ TruthySeq(sel)) =>
                   /\ last.ret /= None
                   /\ DictKeys(last.ret[1]) = Distinct(wanted, <<>>)
                   /\ \A k \in DOMAIN last.ret[1] :
                          /\ DictHas(full, last.ret[1][k].name)
                          /\ last.ret[1][k].desc = DictGet(full, last.ret[1][k].name)

C9_Witness ==
    /\ ~Idle
    /\ last.op = "columns_schema"
    /\ last.ret /= None
    /\ rels[last.self]._selected_columns = Some(<<"B", "a", "B">>)
    /\ DictKeys(last.ret[1]) = <<"b", "a">>
    /\ DictKeys(Known(rels[last.self])) = <<"a", "b">>

\* what a sequence of session and cursor events leaves open: "closed" (nothing was
\* opened), "session", "cursor" (the cursor inside the session), "released" (the
\* cursor closed, the session open), "done" (both closed), or "bad" (out of order)
RECURSIVE Replay(_, _, _)
Replay(log, k, st) ==
    IF k > Len(log) THEN st
    ELSE Replay(log, k + 1,
             IF st = "closed" /\ log[k] = "open_session" THEN "session"
             ELSE IF st = "session" /\ log[k] = "execute_query" THEN "cursor"
             ELSE IF st = "cursor" /\ log[k] = "use_cursor" THEN "cursor"
             ELSE IF st = "cursor" /\ log[k] = "close_cursor" THEN "released"
             ELSE IF st \in {"session", "released"} /\ log[k] = "close_session" THEN "done"
             ELSE "bad")
ScopeState(log) == Replay(log, 1, "closed")

\* C10: a fetch function opens the session, executes the query, uses the cursor,
\* closes the cursor and then the session, in that order; when execute_query, the
\* forwarded call or the caller's body raises, what was opened is closed, cursor
\* first, and the error is raised to the caller; inside a cursor() scope the
\* session and the cursor are open, and after it nothing is
C10_ScopesNested ==
    /\ (~Idle /\ last.op = "fetch") =>
           /\ ScopeState(last.log) \in {"closed", "done"}
           /\ ScopeState(last.log) = "closed" => last.exc = Some("Exception")
           /\ (_sql_client /= None /\ ~last.args[2]) =>
                  (last.exc = Some("DatabaseError") /\ last.log = <<"open_session", "close_session">>)
           /\ (_sql_client /= None /\ last.args[2] /\ ~last.args[3]) =>
                  last.exc = Some("CallError")
           /\ (_sql_client /= None /\ last.args[2]) =>
                  last.log = <<"open_session", "execute_query", "use_cursor",
                               "close_cursor", "close_session">>
           /\ last.exc = None <=> last.ret /= None
           /\ last.exc = None => (last.args[2] /\ last.args[3])
    /\ (~Idle /\ last.op = "cursor") =>
           IF last.exc = None
           THEN /\ last.args[1]
                /\ last.log = <<"open_session", "execute_query">>
                /\ ctx = Some([rel |-> last.self, log |-> last.log])
           ELSE ScopeState(last.log) \in {"closed", "done"}
    /\ (~Idle /\ last.op = "cursor_exit") =>
           /\ last.log = <<"open_session", "execute_query", "close_cursor", "close_session">>
           /\ ctx = None
           /\ ~last.args[1] => last.exc = Some("BodyError")
    /\ ctx /= None => ScopeState(ctx[1].log) = "cursor"

C10_Witness ==
    /\ ~Idle
    /\ last.op = "fetch"
    /\ last.exc = Some("CallError")
    /\ ScopeState(last.log) = "done"
    /\ Len(last.log) = 5
    /\ ctx /= None

\* how often event e is in a log
Count(log, e) == Cardinality({ k \in DOMAIN log : log[k] = e })

\* C11 (as claimed): a lazy sequence that has given an item and has neither ended
\* nor been abandoned has its session open, whatever calls were started and
\* finished on Relations of the same Dataset since; and the step that ends or
\* abandons it closes its cursor and then its session
C11_LazySequenceLifetime ==
    /\ \A k \in DOMAIN gens : gens[k].st = "open" => session
    /\ (~Idle /\ last.op \in {"pull", "close"} /\ last.args[2] = "open"
            /\ Len(gens) < Len(last.before.gens)) =>
           last.log = <<"close_cursor", "close_session">>

\* C12: calling an iteration function returns a new generator object and opens
\* nothing: no session event, no resolution, every generator already held is as
\* it was; the first pull of a generator enters the session once and executes the
\* query once, and a later pull of it does neither
C12_FreshSequences ==
    /\ (~Idle /\ last.op = "iter") =>
           /\ last.exc = None
           /\ last.log = <<>>
           /\ DatasetUntouched
           /\ session = last.before.session
           /\ last.ret = Some(Len(last.before.gens) + 1)
           /\ Len(gens) = Len(last.before.gens) + 1
           /\ SubSeq(gens, 1, Len(last.before.gens)) = last.before.gens
           /\ gens[Len(gens)] = [rel |-> last.self, st |-> "new"]
    /\ (~Idle /\ last.op = "pull" /\ last.args[2] = "new") =>
           IF _sql_client = None
           THEN last.log = <<>> /\ last.exc = Some("Exception")
           ELSE /\ Count(last.log, "open_session") = 1
                /\ last.log[1] = "open_session"
                /\ Count(last.log, "execute_query") = (IF last.args[3] THEN 1 ELSE 0)
    /\ (~Idle /\ last.op = "pull" /\ last.args[2] = "open") =>
           /\ Count(last.log, "open_session") = 0
           /\ Count(last.log, "execute_query") = 0
           /\ DatasetUntouched

C12_Witness ==
    /\ ~Idle
    /\ last.op = "pull"
    /\ last.args[2] = "new"
    /\ last.exc = None
    /\ last.log = <<"open_session", "execute_query">>
    /\ Len(gens) = 2
    /\ gens[1] = [rel |-> 1, st |-> "open"]
    /\ gens[2] = [rel |-> 1, st |-> "open"]

\* C13: query is the provided text for a raw-query Relation; for a table it is
\* SELECT, the limit prefix, the columns, FROM, the qualified normalized table
\* name, the limit suffix: the columns are * without a selection and otherwise
\* the requested names, each normalized and then escaped, in request order; prefix
\* and suffix are the client's limit clause for n when the Relation carries a
\* limit n >= 1 and empty when it carries none.  The query is decided by the
\* table name, the limit and the selection the Relation carries, however it got
\* them.
C13_QuerySynthesis ==
    (~Idle /\ last.op = "query" /\ _sql_client /= None) =>
        LET r == rels[last.self]
            cols == r._selected_columns
            columns == IF ~TruthySeq(cols) THEN <<"*">>
                       ELSE [k \in DOMAIN cols[1] |-> EscapeColumnName(NormalizePath(cols[1][k]))]
            table == MakeQualifiedTableName(NormalizeTablesPath(r._table_name[1]))
        IN  /\ last.exc = None
            /\ last.ret /= None
            /\ TruthyStr(r._provided_query) => last.ret[1] = <<r._provided_query[1]>>
            /\ ~TruthyStr(r._provided_query) =>
                   /\ Len(last.ret[1]) = 6
                   /\ last.ret[1][1] = "SELECT"
                   /\ last.ret[1][3] = columns
                   /\ last.ret[1][4] = "FROM"
                   /\ last.ret[1][5] = table
                   /\ (r._limit /= None /\ r._limit[1] >= 1) =>
                          <<last.ret[1][2], last.ret[1][6]>> = LimitClauseSql(r._limit[1])
                   /\ r._limit = None => (last.ret[1][2] = "" /\ last.ret[1][6] = "")

C13_Witness ==
    /\ ~Idle
    /\ last.op = "query"
    /\ rels[last.self] = [_provided_query |-> None, _table_name |-> Some("T"),
                          _limit |-> Some(2), _selected_columns |-> Some(<<"B", "a", "B">>)]
    /\ last.ret = Some(<< "SELECT", "",
                          << <<"escaped", "b">>, <<"escaped", "a">>, <<"escaped", "b">> >>,
                          "FROM", <<"qualified", "d", "t">>, <<"LIMIT", 2>> >>)

\* what a call of get_destination_clients was given
ClientsCall == ~Idle /\ last.op = "get_destination_clients"
StagingGiven == last.args.staging /= None
StagingMissing == StagingGiven /\ ~last.args.staging[1].driver
DriversInstalled == last.args.destination.driver /\ ~StagingMissing
MissingDependencyOf(destination_type) ==
    Some([caller |-> <<destination_type, "destination">>,
          dependencies |-> << <<"dlt", destination_type>> >>])

\* C14: get_destination_clients never fails with the raw module-not-found error:
\* when the staging client or the destination client cannot be constructed
\* because its driver module is missing, the call fails with MissingDependency
\* carrying the destination's type and the extra dlt[<destination type>], and
\* returns no client.
C14_MissingDependencyWrapped ==
    ClientsCall =>
        /\ last.exc /= Some("ModuleNotFoundError")
        /\ (StagingMissing \/ (last.args.destination_initial_config = None
                               /\ ~last.args.destination.driver)) =>
               /\ last.exc = Some("MissingDependencyException")
               /\ last.dependency = MissingDependencyOf(last.args.destination.destination_type)
               /\ last.ret = None
        /\ last.exc = Some("MissingDependencyException") =>
               (~DriversInstalled /\ last.ret = None)

\* the staging driver is missing, the destination's is not: the error names the
\* destination
C14_Witness ==
    /\ ClientsCall
    /\ StagingMissing
    /\ last.args.destination.driver
    /\ last.exc = Some("MissingDependencyException")
    /\ last.dependency = MissingDependencyOf("postgres")
    /\ last.log = <<>>

\* C15: dataset() returns a Dataset, as its constructor leaves it, for
\* dataset_type "dbapi"; for every other dataset_type it fails with
\* NotImplementedError, returns nothing and the Dataset the caller held is as it
\* was.
C15_OnlyDbapi ==
    (~Idle /\ last.op = "dataset") =>
        IF last.args[2] = "dbapi"
        THEN /\ last.exc = None
             /\ last.ret = Some([_provided_schema |-> last.args[1], _schema |-> None,
                                 _sql_client |-> None])
             /\ _provided_schema = last.args[1]
             /\ _schema = None
             /\ _sql_client = None
        ELSE /\ last.exc = Some("NotImplementedError")
             /\ last.ret = None
             /\ _provided_schema = last.before.provided_schema

C15_Witness ==
    /\ ~Idle
    /\ last.op = "dataset"
    /\ last.args = << <<"str", "s1">>, "ibis" >>
    /\ last.exc = Some("NotImplementedError")
    /\ _provided_schema = <<"schema", ExplicitSchema>>

\* the kind of the configuration the destination client is to be built from and
\* whether the staging configuration is to be attached to it
DestinationConfigKind ==
    IF last.args.destination_initial_config /= None
    THEN last.args.destination_initial_config[1].kind
    ELSE last.args.destination.spec
Compatible(staging_config) ==
    StagingGiven /\ IsDwhWithStaging(DestinationConfigKind) /\ IsStaging(staging_config.kind)
ClientEvents == { i \in DOMAIN last.log : last.log[i].ev = "client" }
AttachEvents == { i \in DOMAIN last.log : last.log[i].ev = "attach" }

\* C18: with a staging destination, and every driver installed, the staging client
\* is constructed first, from a configuration in the staging role when the call
\* built it and its kind has that role; the destination client is constructed
\* after it; the staging client's configuration is attached before that
\* construction exactly when the destination configuration is of the
\* with-staging kind and the staging configuration of the staging kind.  Without
\* a staging destination nothing is attached and the pair returned has no
\* staging client.
C18_StagingBeforeDestination ==
    (ClientsCall /\ DriversInstalled) =>
        IF StagingGiven
        THEN /\ Len(last.log) >= 2
             /\ last.log[1].ev = "client" /\ last.log[1].role = "staging"
             /\ (last.args.staging_initial_config = None /\ IsStaging(last.args.staging[1].spec))
                    => last.log[1].config.as_staging_destination = Some(TRUE)
             /\ last.log[Len(last.log)].ev = "client"
             /\ last.log[Len(last.log)].role = "destination"
             /\ Cardinality(ClientEvents) = 2
             /\ IF Compatible(last.log[1].config)
                THEN /\ AttachEvents = {2}
                     /\ last.log[2].config = last.log[1].config
                     /\ last.log[3].config.staging_config = Some(last.log[1].config)
                ELSE /\ AttachEvents = {}
                     /\ last.log[2].config.staging_config = None
        ELSE /\ AttachEvents = {}
             /\ last.ret /= None
             /\ last.ret[1].staging_client = None
             /\ last.ret[1].client.config.staging_config = None

\* C20: with a destination_initial_config passed by the caller, and every driver
\* installed, the destination client is constructed from that configuration,
\* with the staging configuration attached where the kinds allow it, and the
\* pair is returned as it is when the configuration is built by the call.
C20_SuppliedConfigUsed ==
    (ClientsCall /\ DriversInstalled /\ last.args.destination_initial_config /= None) =>
        /\ last.exc = None
        /\ last.ret /= None
        /\ last.ret[1].client.destination_type = last.args.destination.destination_type
        /\ last.ret[1].client.config =
               IF StagingGiven /\ Compatible(last.ret[1].staging_client[1].config)
               THEN [last.args.destination_initial_config[1] EXCEPT
                        !.staging_config = Some(last.ret[1].staging_client[1].config)]
               ELSE last.args.destination_initial_config[1]

\* the query text and the table name a construction was asked with
AskedQuery ==
    IF last.op = "call" THEN Some(last.args[1]) ELSE IF last.op = "init" THEN last.args[1] ELSE None
AskedTable ==
    IF last.op = "table" THEN Some(last.args[1]) ELSE IF last.op = "init" THEN last.args[2] ELSE None

\* C16: every Relation made by table(), by a call with a query, by the constructor
\* or by any chain of limit/select/head/[] carries exactly one of a non-empty
\* query and a non-empty table name, and carries no limit and no selected
\* columns when it is the query; a construction asked with both or with neither
\* (an empty text counts as not given) fails and makes no Relation, every other
\* one succeeds.
C16_ExactlyOneSource ==
    /\ \A i \in DOMAIN rels :
          /\ TruthyStr(rels[i]._provided_query) /= TruthyStr(rels[i]._table_name)
          /\ TruthyStr(rels[i]._provided_query) =>
                (rels[i]._limit = None /\ rels[i]._selected_columns = None)
    /\ (~Idle /\ last.op \in {"table", "call", "init"}) =>
          IF TruthyStr(AskedQuery) = TruthyStr(AskedTable)
          THEN last.exc = Some("AssertionError") /\ last.ret = None /\ rels = last.before.rels
          ELSE last.exc = None /\ last.ret /= None

\* table("") fails, and so does the constructor given both
C16_Witness ==
    /\ ~Idle
    /\ \/ last.op = "table" /\ last.args = <<"">>
       \/ last.op = "init" /\ last.args = <<Some("SELECT 1"), Some("t")>>
    /\ last.exc = Some("AssertionError")
    /\ rels /= <<>>
    /\ rels = last.before.rels

\* operations that need neither the schema nor the sql client, and calls that
\* cannot go on without one of them
Deferring == {"table", "call", "init", "limit", "head", "iter"}
NeedsResolution ==
    \/ last.op \in {"schema", "sql_client", "columns_schema", "cursor", "fetch"}
    \/ last.op = "query" /\ ~TruthyStr(rels[last.self]._provided_query)
    \/ last.op \in {"select", "getitem"} /\ last.exc \notin {Some(HasQuery), Some("TypeError")}
    \/ last.op = "pull" /\ last.args[2] = "new"

\* C17: table(), a call with a query, limit, head and the making of a lazy
\* sequence construct no client, look up no stored schema and leave the
\* Dataset's schema and sql client as they were; so does every call that does not
\* enter _ensure_client_and_schema, and only the reads of schema and sql_client
\* and the Relation operations that need them enter it.
C17_DeferredResolution ==
    ~Idle =>
        /\ last.op \in Deferring => DatasetUntouched
        /\ last.ensures = 0 =>
              /\ _schema = last.before.schema
              /\ _sql_client = last.before.sql_client
              /\ Len(clients) = last.before.clients
              /\ Len(lookups) = last.before.lookups
        /\ NeedsResolution => last.ensures >= 1
        /\ last.ensures >= 1 => NeedsResolution

\* a refined Relation of a Dataset that nothing has resolved yet
C17_Witness ==
    /\ ~Idle
    /\ last.op \in {"limit", "head"}
    /\ last.exc = None
    /\ _provided_schema = None
    /\ stored /= <<>>
    /\ _schema = None
    /\ _sql_client = None
    /\ clients = <<>>
    /\ lookups = <<>>

\* C19: on a destination whose client has no sql client every read of schema
\* and of sql_client raises the error that names the destination type and
\* returns nothing; _sql_client stays unset; the read constructs the client bound
\* to the resolved schema exactly once.  No read of schema or sql_client ever
\* returns None or leaves the Dataset half resolved.
C19_NoSqlClient ==
    /\ ~caps.sql_client => _sql_client = None
    /\ (~Idle /\ last.op \in {"schema", "sql_client"}) =>
          IF caps.sql_client
          THEN last.exc = None /\ last.ret /= None /\ Resolved
          ELSE /\ last.exc = Some("Exception")
               /\ last.msg = Some(<<"Destination", "postgres", "does not support SqlClient.">>)
               /\ last.ret = None
               /\ last.ensures = 1
               /\ Cardinality({ i \in Production : i > last.before.clients }) = 1
               /\ clients[Len(clients)].line = 299
               /\ clients[Len(clients)].schema = _schema[1]

\* the second failing read: it constructs one more client
C19_Witness ==
    /\ ~Idle
    /\ last.op \in {"schema", "sql_client"}
    /\ ~caps.sql_client
    /\ last.exc = Some("Exception")
    /\ last.before.schema /= None
    /\ Cardinality(Production) = 2
    /\ _sql_client = None
====
